---------------------------- MODULE Spec2Model ----------------------------
(***************************************************************************)
(* Batch-job pages of the pill-recognition console: dataset split,         *)
(* stream-image creation, annotation remap and augmentation.  Every page   *)
(* is a React component; its useState cells are the fields of one record,  *)
(* the requests it has sent and not yet seen answered are a second record, *)
(* and a third record holds what an observer of the page has seen (which   *)
(* requests were answered how, how many notifications were raised).        *)
(*                                                                         *)
(* One action is one run of a handler from its call, or from the point     *)
(* where an awaited fetch settles, up to its next await, followed by the   *)
(* render and the effects that the state change triggers.                  *)
(***************************************************************************)
EXTENDS Integers, Sequences, FiniteSets, TLC

VARIABLES split, splitNet, splitObs,
          stream, streamGate, streamNet, streamSnacks, streamObs,
          remap, remapNet, remapObs,
          aug, augNet,
          calib, calibNet, calibObs,
          auth, authNet, authView, authObs,
          cam, camNet, camObs,
          usersPage, usersNet, usersObs,
          dispense, dispenseNet

splitVars == <<split, splitNet, splitObs>>
streamVars == <<stream, streamGate, streamNet, streamSnacks, streamObs>>
remapVars == <<remap, remapNet, remapObs>>
augVars == <<aug, augNet>>
calibVars == <<calib, calibNet, calibObs>>
\* The pages above, as seen from the pages below, and the reverse.
earlierVars == <<splitVars, streamVars, remapVars, augVars>>
authVars == <<auth, authNet, authView, authObs>>
camVars == <<cam, camNet, camObs>>
usersVars == <<usersPage, usersNet, usersObs>>
dispenseVars == <<dispense, dispenseNet>>
laterVars == <<calibVars, authVars, camVars, usersVars, dispenseVars>>
besidesCalib == <<earlierVars, authVars, camVars, usersVars, dispenseVars>>
besidesAuth == <<earlierVars, calibVars, camVars, usersVars, dispenseVars>>
besidesCam == <<earlierVars, calibVars, authVars, usersVars, dispenseVars>>
besidesUsers == <<earlierVars, calibVars, authVars, camVars, dispenseVars>>
besidesDispense == <<earlierVars, calibVars, authVars, camVars, usersVars>>
vars == <<split, splitNet, splitObs,
          stream, streamGate, streamNet, streamSnacks, streamObs,
          remap, remapNet, remapObs,
          aug, augNet,
          calib, calibNet, calibObs,
          auth, authNet, authView, authObs,
          cam, camNet, camObs,
          usersPage, usersNet, usersObs,
          dispense, dispenseNet>>

\* ------------------------------------------------------------------ bounds
\* Requests of one kind that may be outstanding at once.
MaxSplitStarts == 1
MaxPolls == 2
MaxStops == 1
MaxStreamStarts == 1
\* Intervals the remap page creates (one per accepted start).
MaxRemapRuns == 2
\* Poll failures in a row the observer counts (the counter saturates here).
MaxErrors == 3
MaxAugStarts == 2
\* checkProgress chains alive at once (one begins with every start).
MaxAugChains == 2
\* The calibration page's progress counter is followed up to here.
MaxCalibProgress == 150
\* attempt_login and logout requests that may be unanswered at once.
MaxLogins == 2
MaxLogouts == 1
\* Renders of the camera-settings form that are followed.
MaxRenders == 4
\* Notifications counted per run (the counter saturates here).
MaxNotified == 2
\* Requests the user-management page sends in one session.
MaxUserRequests == 2
\* selected_recipe requests that may be outstanding at once.
MaxRecipeRequests == 2

Null == "null"

Min(a, b) == IF a < b THEN a ELSE b

\* ------------------------------------------------- the backend's answers
\* Progress samples of get_split_progress / get_stream_image_progress /
\* get_remap_annotation_progress: {progress, processed, total}.
Sample(p, n, t) == [progress |-> p, processed |-> n, total |-> t]
ZeroInfo == Sample(0, 0, 0)
Samples == {Sample(0, 0, 500), Sample(50, 250, 500), Sample(100, 500, 500)}

\* data_availability_for_split: {images, segmentation_labels, mask_images}.
SplitFlags(i, s, m) == [images |-> i, segmentation_labels |-> s, mask_images |-> m]
SplitSnapshots == {SplitFlags(TRUE, TRUE, TRUE), SplitFlags(TRUE, FALSE, TRUE)}

\* ============================================================ split page
\* Values typed into the train / val / test fields.
ParamNames == {"train", "val", "test"}
ParamValues == {0, 30}

ErrSum == "Split percentages must sum to 100%"
ErrZero == "Values can't be 0."
ErrStart == "Failed to start dataset split"
ErrStop == "Failed to stop dataset split"
ErrAvail == "Failed to fetch data availability"

\* What an observer has seen of the current run (since the last accepted
\* click on Start): whether start_split was answered ok, how far a stop got
\* ("none", "asked", "stopped"), how many samples it received while they
\* were, in order, those of Scenario (`inOrder` is false once one was not),
\* and how many times the success snackbar opened.
Scenario == <<Sample(0, 0, 500), Sample(50, 250, 500), Sample(100, 500, 500)>>
NewRun == [accepted |-> FALSE, stop |-> "none", inOrder |-> TRUE, got |-> 0,
           notified |-> 0]

SplitInit ==
    /\ split = [availability |-> SplitFlags(FALSE, FALSE, FALSE),
                loading |-> TRUE,
                availabilityError |-> Null,
                splitError |-> Null,
                splitParams |-> [train |-> 70, val |-> 20, test |-> 10],
                isProcessing |-> FALSE,
                progress |-> 0,
                success |-> FALSE,
                progressInfo |-> ZeroInfo,
                snackbarOpen |-> FALSE,
                isComplete |-> FALSE]
    /\ splitNet = [start |-> 0, polls |-> 0, stop |-> 0, interval |-> FALSE]
    /\ splitObs = NewRun

\* useEffect(..., [isComplete, progress]): runs after a render in which one
\* of the two changed; its own setIsComplete(false) re-renders and runs it
\* once more, to the same result.
SnackbarEffect(old, new) ==
    IF (new.isComplete # old.isComplete \/ new.progress # old.progress)
       /\ new.progress = 100
    THEN [new EXCEPT !.snackbarOpen = TRUE, !.isComplete = FALSE]
    ELSE new

\* useEffect(..., [isProcessing]): the interval exists exactly while the
\* committed isProcessing is true (the cleanup clears it).
PollerEffect(isProcessing) == isProcessing

\* What the observer counts as one notification: the snackbar opening.
Opened(old, new) == IF ~old.snackbarOpen /\ new.snackbarOpen THEN 1 ELSE 0

\* A handler's state changes `new`, committed: effects run, the interval
\* follows isProcessing, the observer sees the snackbar.
SplitCommit(new, net, obs) ==
    LET shown == SnackbarEffect(split, new) IN
    /\ split' = shown
    /\ splitNet' = [net EXCEPT !.interval = PollerEffect(shown.isProcessing)]
    /\ splitObs' = [obs EXCEPT
                      !.notified = Min(@ + Opened(split, shown), MaxNotified)]
    /\ UNCHANGED <<streamVars, remapVars, augVars, laterVars>>

\* fetchDataAvailability, the response arrived and was ok.
SplitAvailabilityOk(data) ==
    /\ split.loading
    /\ SplitCommit([split EXCEPT !.availability = data, !.success = TRUE,
                                 !.availabilityError = Null, !.loading = FALSE],
                   splitNet, splitObs)

\* fetchDataAvailability, the fetch threw or the response was not ok.
SplitAvailabilityFail ==
    /\ split.loading
    /\ SplitCommit([split EXCEPT !.availabilityError = ErrAvail, !.loading = FALSE],
                   splitNet, splitObs)

handleParamChange(name, value) ==
    /\ name \in ParamNames
    /\ SplitCommit([split EXCEPT !.splitParams[name] = value], splitNet, splitObs)

\* SplitValidation with the sum test loosened to "more than 100".
SplitValidationOver(p) ==
    IF p.train + p.val + p.test > 100 THEN ErrSum
    ELSE IF p.train = 0 \/ p.val = 0 \/ p.test = 0 THEN ErrZero
    ELSE Null

\* The caller-side validation of startSplit: the error it records, or Null.
SplitValidation(p) ==
    IF p.train + p.val + p.test # 100 THEN ErrSum
    ELSE IF p.train = 0 \/ p.val = 0 \/ p.test = 0 THEN ErrZero
    ELSE Null

\* The Start button: disabled={isProcessing || loading}.
SplitStartDisabled == split.isProcessing \/ split.loading

startSplit ==
    /\ ~SplitStartDisabled
    /\ IF SplitValidation(split.splitParams) # Null
       THEN SplitCommit([split EXCEPT !.splitError = SplitValidation(split.splitParams)],
                        splitNet, splitObs)
       ELSE /\ splitNet.start < MaxSplitStarts
            /\ SplitCommit([split EXCEPT !.isProcessing = TRUE, !.splitError = Null,
                                         !.progress = 0, !.isComplete = FALSE,
                                         !.snackbarOpen = FALSE],
                           [splitNet EXCEPT !.start = @ + 1],
                           NewRun)

\* start_split answered ok: setProgress(100), then finally setIsProcessing(false).
startSplitOk ==
    /\ splitNet.start > 0
    /\ SplitCommit([split EXCEPT !.progress = 100, !.isProcessing = FALSE],
                   [splitNet EXCEPT !.start = @ - 1],
                   [splitObs EXCEPT !.accepted = TRUE])

\* start_split failed: the catch records the message, finally as above.
startSplitFail ==
    /\ splitNet.start > 0
    /\ SplitCommit([split EXCEPT !.splitError = ErrStart, !.isProcessing = FALSE],
                   [splitNet EXCEPT !.start = @ - 1],
                   splitObs)

\* The 500 ms interval fires: the callback sends get_split_progress.
SplitPollTick ==
    /\ splitNet.interval
    /\ splitNet.polls < MaxPolls
    /\ splitNet' = [splitNet EXCEPT !.polls = @ + 1]
    /\ UNCHANGED <<split, splitObs, streamVars, remapVars, augVars, laterVars>>

\* The observer after sample `s`.
Seen(obs, s) ==
    IF obs.inOrder /\ obs.got < Len(Scenario) /\ s = Scenario[obs.got + 1]
    THEN [obs EXCEPT !.got = @ + 1]
    ELSE [obs EXCEPT !.inOrder = FALSE, !.got = 0]

\* The callback's continuation on an ok response.
SplitPollOk(data) ==
    /\ splitNet.polls > 0
    /\ LET seen == [split EXCEPT !.progressInfo = data, !.progress = data.progress]
           new == IF data.progress = 100
                  THEN [seen EXCEPT !.isProcessing = FALSE, !.isComplete = TRUE]
                  ELSE seen
       IN SplitCommit(new, [splitNet EXCEPT !.polls = @ - 1],
                      Seen(splitObs, data))

\* A response that is not ok, or a fetch that throws (logged): no state change.
SplitPollFail ==
    /\ splitNet.polls > 0
    /\ splitNet' = [splitNet EXCEPT !.polls = @ - 1]
    /\ UNCHANGED <<split, splitObs, streamVars, remapVars, augVars, laterVars>>

\* The Stop button: disabled={!isProcessing}.
stopSplit ==
    /\ split.isProcessing
    /\ splitNet.stop < MaxStops
    /\ SplitCommit([split EXCEPT !.splitError = Null],
                   [splitNet EXCEPT !.stop = @ + 1],
                   [splitObs EXCEPT !.stop = IF @ = "none" THEN "asked" ELSE @])

stopSplitOk ==
    /\ splitNet.stop > 0
    /\ SplitCommit([split EXCEPT !.progress = 0, !.isProcessing = FALSE,
                                 !.progressInfo = ZeroInfo],
                   [splitNet EXCEPT !.stop = @ - 1],
                   [splitObs EXCEPT !.stop = "stopped"])

stopSplitFail ==
    /\ splitNet.stop > 0
    /\ SplitCommit([split EXCEPT !.splitError = ErrStop],
                   [splitNet EXCEPT !.stop = @ - 1],
                   splitObs)

\* The snackbar's close button or its autoHideDuration.
handleSnackbarClose ==
    /\ split.snackbarOpen
    /\ SplitCommit([split EXCEPT !.snackbarOpen = FALSE], splitNet, splitObs)

SplitNext ==
    \/ \E data \in SplitSnapshots : SplitAvailabilityOk(data)
    \/ SplitAvailabilityFail
    \/ \E name \in ParamNames, value \in ParamValues : handleParamChange(name, value)
    \/ startSplit
    \/ startSplitOk
    \/ startSplitFail
    \/ SplitPollTick
    \/ \E data \in Samples : SplitPollOk(data)
    \/ SplitPollFail
    \/ stopSplit
    \/ stopSplitOk
    \/ stopSplitFail
    \/ handleSnackbarClose


\* =================================================== stream-image page
\* (kfoldsort/page.tsx, the component wrapped in the SnackbarProvider)

\* data_availability_for_stream_images.
StreamFlags(i, m, s, b) ==
    [images |-> i, mask_images |-> m, split |-> s, background_changed |-> b]
StreamSnapshots == {StreamFlags(TRUE, TRUE, FALSE, FALSE),
                    StreamFlags(TRUE, TRUE, TRUE, TRUE),
                    StreamFlags(FALSE, TRUE, FALSE, FALSE)}
Modes == {"consumer", "reference"}
\* get_stream_image_progress: the samples above and one past 100.
StreamSamples == Samples \cup {Sample(120, 600, 500)}

ErrSplitRef == "Failed to split consumer reference"
ErrBackground == "Failed to change background"
ErrStream == "Failed to start stream image creation"

\* The toasts of the run: notistack shows a message unless the same message
\* is on screen (preventDuplicate).  Tracked are the two toasts that end a
\* run; the remediation's toasts (each enqueued at most once per page load)
\* and the warning and error toasts of a failed stop change nothing else.
Created == "Stream images successfully created!"
Stopped == "Process stopped successfully and output directories cleared"

\* enqueueSnackbar(msg) under preventDuplicate: 1 if msg gets shown.
Shown(snacks, msg) == IF msg \in snacks THEN 0 ELSE 1

StreamNewRun == [created |-> 0, stopped |-> 0]

StreamInit ==
    /\ stream = [availability |-> StreamFlags(FALSE, FALSE, FALSE, FALSE),
                 loading |-> TRUE,
                 availabilityError |-> Null,
                 streamError |-> Null,
                 success |-> FALSE,
                 selectedMode |-> "",
                 isProcessing |-> FALSE,
                 progress |-> 0,
                 progressInfo |-> ZeroInfo,
                 dataSuccess |-> FALSE,
                 modeSelected |-> FALSE,
                 stopEnabled |-> FALSE]
    \* fetchDataAvailability has sent its first request; `data` is the
    \* snapshot handleMissingData was called with, `log` the requests sent
    \* and the answers received by this start attempt's gate.
    /\ streamGate = [pc |-> "fetch",
                     data |-> StreamFlags(FALSE, FALSE, FALSE, FALSE),
                     log |-> <<"avail">>]
    /\ streamNet = [start |-> 0, polls |-> 0, stop |-> 0, interval |-> FALSE,
                    down |-> FALSE]
    /\ streamSnacks = {}
    /\ streamObs = StreamNewRun

\* useEffect(..., [progress]): if (progress >= 100) setStopEnabled(false).
StopEffect(old, new) ==
    IF new.progress # old.progress /\ new.progress >= 100
    THEN [new EXCEPT !.stopEnabled = FALSE]
    ELSE new

StreamCommit(new, net) ==
    LET shown == StopEffect(stream, new) IN
    /\ stream' = shown
    /\ streamNet' = [net EXCEPT !.interval = PollerEffect(shown.isProcessing)]

\* handleMissingData's two conditions.
NeedsSplit(d) == ~d.split /\ d.images /\ d.mask_images
NeedsBackground(d) == ~d.background_changed /\ d.images /\ d.mask_images

\* Where handleMissingData(d) goes first: the request it sends, or straight
\* back to its caller, which re-fetches.
FirstRemedy(d) ==
    IF NeedsSplit(d) THEN "split"
    ELSE IF NeedsBackground(d) THEN "bg"
    ELSE "refetch"

\* AfterSplit that does not look at response.ok.
AfterSplitUnchecked(ok, d) == IF NeedsBackground(d) THEN "bg" ELSE "refetch"

\* Where it goes once split_consumer_reference has answered: a response that
\* is not ok throws past the background step into the catch.
AfterSplit(ok, d) ==
    IF ok /\ NeedsBackground(d) THEN "bg" ELSE "refetch"

\* The request that step `pc` sends.
Request(pc) == IF pc = "refetch" THEN "avail" ELSE pc

Goto(pc) == [streamGate EXCEPT !.pc = pc, !.log = Append(@, Request(pc))]
Answered(gate, what) == [gate EXCEPT !.log = Append(@, what)]

\* fetchDataAvailability: the first response, ok.
StreamFetchOk(data) ==
    /\ streamGate.pc = "fetch"
    /\ ~streamNet.down
    /\ IF ~data.split \/ ~data.background_changed
       THEN /\ streamGate' = [Goto(FirstRemedy(data)) EXCEPT !.data = data]
            /\ StreamCommit([stream EXCEPT !.availability = data], streamNet)
       ELSE /\ streamGate' = [streamGate EXCEPT !.pc = "done", !.data = data]
            /\ StreamCommit([stream EXCEPT !.availability = data, !.success = TRUE,
                                           !.dataSuccess = TRUE, !.loading = FALSE],
                            streamNet)
    /\ UNCHANGED <<streamSnacks, streamObs, splitVars, remapVars, augVars, laterVars>>

\* fetchDataAvailability: the first fetch threw or was not ok.
StreamFetchFail ==
    /\ streamGate.pc = "fetch"
    /\ streamGate' = [streamGate EXCEPT !.pc = "done"]
    /\ StreamCommit([stream EXCEPT !.availabilityError = ErrAvail, !.loading = FALSE],
                    streamNet)
    /\ UNCHANGED <<streamSnacks, streamObs, splitVars, remapVars, augVars, laterVars>>

\* handleMissingData: split_consumer_reference answered ok.
SplitReferenceOk ==
    /\ streamGate.pc = "split"
    /\ ~streamNet.down
    /\ streamGate' = LET g == Answered(streamGate, "split:ok")
                         pc == AfterSplit(TRUE, streamGate.data)
                     IN [g EXCEPT !.pc = pc, !.log = Append(@, Request(pc))]
    /\ UNCHANGED <<stream, streamNet, streamSnacks, streamObs, splitVars, remapVars, augVars, laterVars>>

\* handleMissingData: split_consumer_reference failed; the catch records it
\* and the function returns to fetchDataAvailability.
SplitReferenceFail ==
    /\ streamGate.pc = "split"
    /\ streamGate' = LET g == Answered(streamGate, "split:fail")
                         pc == AfterSplit(FALSE, streamGate.data)
                     IN [g EXCEPT !.pc = pc, !.log = Append(@, Request(pc))]
    /\ StreamCommit([stream EXCEPT !.availabilityError = ErrSplitRef], streamNet)
    /\ UNCHANGED <<streamSnacks, streamObs, splitVars, remapVars, augVars, laterVars>>

\* handleMissingData: change_background answered ok.
ChangeBackgroundOk ==
    /\ streamGate.pc = "bg"
    /\ ~streamNet.down
    /\ streamGate' = [Answered(streamGate, "bg:ok") EXCEPT
                        !.pc = "refetch", !.log = Append(@, "avail")]
    /\ UNCHANGED <<stream, streamNet, streamSnacks, streamObs, splitVars, remapVars, augVars, laterVars>>

\* handleMissingData: change_background failed; caught as above.
ChangeBackgroundFail ==
    /\ streamGate.pc = "bg"
    /\ streamGate' = [Answered(streamGate, "bg:fail") EXCEPT
                        !.pc = "refetch", !.log = Append(@, "avail")]
    /\ StreamCommit([stream EXCEPT !.availabilityError = ErrBackground], streamNet)
    /\ UNCHANGED <<streamSnacks, streamObs, splitVars, remapVars, augVars, laterVars>>

\* fetchDataAvailability: the second snapshot arrived (its status is not
\* looked at); the attempt ends as a success.
StreamRefetchOk(newData) ==
    /\ streamGate.pc = "refetch"
    /\ ~streamNet.down
    /\ streamGate' = [streamGate EXCEPT !.pc = "done"]
    /\ StreamCommit([stream EXCEPT !.availability = newData, !.success = TRUE,
                                   !.dataSuccess = TRUE, !.loading = FALSE],
                    streamNet)
    /\ UNCHANGED <<streamSnacks, streamObs, splitVars, remapVars, augVars, laterVars>>

\* fetchDataAvailability: the second fetch (or its json()) threw.
StreamRefetchFail ==
    /\ streamGate.pc = "refetch"
    /\ streamGate' = [streamGate EXCEPT !.pc = "done"]
    /\ StreamCommit([stream EXCEPT !.availabilityError = ErrAvail, !.loading = FALSE],
                    streamNet)
    /\ UNCHANGED <<streamSnacks, streamObs, splitVars, remapVars, augVars, laterVars>>

handleModeChange(value) ==
    /\ value \in Modes
    /\ StreamCommit([stream EXCEPT !.modeSelected = TRUE, !.selectedMode = value],
                    streamNet)
    /\ UNCHANGED <<streamGate, streamSnacks, streamObs, splitVars, remapVars, augVars, laterVars>>

\* The Start button: disabled={isProcessing || !(modeSelected) || !(dataSuccess)}.
StreamStartDisabled ==
    stream.isProcessing \/ ~stream.modeSelected \/ ~stream.dataSuccess

\* startSplit of the stream-image page.
startStream ==
    /\ ~StreamStartDisabled
    /\ IF stream.selectedMode = ""
       THEN /\ StreamCommit([stream EXCEPT !.streamError = "You must choose a mode!"],
                            streamNet)
            /\ UNCHANGED streamObs
       ELSE /\ streamNet.start < MaxStreamStarts
            /\ StreamCommit([stream EXCEPT !.isProcessing = TRUE, !.stopEnabled = TRUE,
                                           !.streamError = Null],
                            [streamNet EXCEPT !.start = @ + 1])
            /\ streamObs' = StreamNewRun
    /\ UNCHANGED <<streamGate, streamSnacks, splitVars, remapVars, augVars, laterVars>>

\* start_stream_images answered ok: nothing else happens.
startStreamOk ==
    /\ streamNet.start > 0
    /\ ~streamNet.down
    /\ streamNet' = [streamNet EXCEPT !.start = @ - 1]
    /\ UNCHANGED <<stream, streamGate, streamSnacks, streamObs, splitVars, remapVars, augVars, laterVars>>

startStreamFail ==
    /\ streamNet.start > 0
    /\ StreamCommit([stream EXCEPT !.stopEnabled = FALSE, !.isProcessing = FALSE,
                                   !.streamError = ErrStream],
                    [streamNet EXCEPT !.start = @ - 1])
    /\ UNCHANGED <<streamGate, streamSnacks, streamObs, splitVars, remapVars, augVars, laterVars>>

\* The 500 ms interval fires: the callback sends get_stream_image_progress.
StreamPollTick ==
    /\ streamNet.interval
    /\ streamNet.polls < MaxPolls
    /\ streamNet' = [streamNet EXCEPT !.polls = @ + 1]
    /\ UNCHANGED <<stream, streamGate, streamSnacks, streamObs, splitVars, remapVars, augVars, laterVars>>

\* The callback's terminal test.
StreamDone(data) == data.progress = 100

\* The callback's continuation on an ok response.
StreamPollOk(data) ==
    /\ streamNet.polls > 0
    /\ ~streamNet.down
    /\ LET seen == [stream EXCEPT !.progressInfo = data, !.progress = data.progress]
           done == StreamDone(data)
       IN /\ StreamCommit(IF done THEN [seen EXCEPT !.isProcessing = FALSE] ELSE seen,
                          [streamNet EXCEPT !.polls = @ - 1])
          /\ streamSnacks' = IF done THEN streamSnacks \cup {Created} ELSE streamSnacks
          /\ streamObs' = IF done
                          THEN [streamObs EXCEPT !.created =
                                  Min(@ + Shown(streamSnacks, Created), MaxNotified)]
                          ELSE streamObs
    /\ UNCHANGED <<streamGate, splitVars, remapVars, augVars, laterVars>>

\* A response that is not ok, or a fetch that throws (logged): no state change.
StreamPollFail ==
    /\ streamNet.polls > 0
    /\ streamNet' = [streamNet EXCEPT !.polls = @ - 1]
    /\ UNCHANGED <<stream, streamGate, streamSnacks, streamObs, splitVars, remapVars, augVars, laterVars>>

\* The Stop button: disabled={!stopEnabled}.
stopStream ==
    /\ stream.stopEnabled
    /\ streamNet.stop < MaxStops
    /\ streamNet' = [streamNet EXCEPT !.stop = @ + 1]
    /\ UNCHANGED <<stream, streamGate, streamSnacks, streamObs, splitVars, remapVars, augVars, laterVars>>

\* stop_stream_image answered ok with status "success".
stopStreamOk ==
    /\ streamNet.stop > 0
    /\ ~streamNet.down
    /\ StreamCommit([stream EXCEPT !.isProcessing = FALSE, !.stopEnabled = FALSE,
                                   !.progress = 0],
                    [streamNet EXCEPT !.stop = @ - 1])
    /\ streamSnacks' = streamSnacks \cup {Stopped}
    /\ streamObs' = [streamObs EXCEPT !.stopped =
                       Min(@ + Shown(streamSnacks, Stopped), MaxNotified)]
    /\ UNCHANGED <<streamGate, splitVars, remapVars, augVars, laterVars>>

\* stop_stream_image answered ok with another status (a warning toast), or
\* failed (an error toast): no state change.
stopStreamFail ==
    /\ streamNet.stop > 0
    /\ streamNet' = [streamNet EXCEPT !.stop = @ - 1]
    /\ UNCHANGED <<stream, streamGate, streamSnacks, streamObs, splitVars, remapVars, augVars, laterVars>>

\* A toast's close button, or its autoHideDuration of 10 s.
closeSnackbar(msg) ==
    /\ msg \in streamSnacks
    /\ streamSnacks' = streamSnacks \ {msg}
    /\ UNCHANGED <<stream, streamGate, streamNet, streamObs, splitVars, remapVars, augVars, laterVars>>

\* The backend stops answering: from here on every request fails.
BackendDown ==
    /\ ~streamNet.down
    /\ streamNet' = [streamNet EXCEPT !.down = TRUE]
    /\ UNCHANGED <<stream, streamGate, streamSnacks, streamObs, splitVars, remapVars, augVars, laterVars>>

StreamNext ==
    \/ \E data \in StreamSnapshots : StreamFetchOk(data)
    \/ StreamFetchFail
    \/ SplitReferenceOk
    \/ SplitReferenceFail
    \/ ChangeBackgroundOk
    \/ ChangeBackgroundFail
    \/ \E newData \in StreamSnapshots : StreamRefetchOk(newData)
    \/ StreamRefetchFail
    \/ \E value \in Modes : handleModeChange(value)
    \/ startStream
    \/ startStreamOk
    \/ startStreamFail
    \/ StreamPollTick
    \/ \E data \in StreamSamples : StreamPollOk(data)
    \/ StreamPollFail
    \/ stopStream
    \/ stopStreamOk
    \/ stopStreamFail
    \/ \E msg \in {Created, Stopped} : closeSnackbar(msg)
    \/ BackendDown

\* ============================================================ remap page
RemapIds == 1..MaxRemapRuns

RemapInit ==
    /\ remap = [filesSelected |-> FALSE, isProcessing |-> FALSE, progress |-> 0,
                progressInfo |-> ZeroInfo]
    \* `runs` intervals were created so far; `timers` are the ones not yet
    \* cleared; polls[id] requests sent by interval id's callback are
    \* unanswered.
    /\ remapNet = [start |-> 0, runs |-> 0, timers |-> {},
                   polls |-> [id \in RemapIds |-> 0]]
    \* Polls that failed in a row since the last start or ok sample.
    /\ remapObs = [errors |-> 0]

RemapPolls == LET RECURSIVE Sum(_)
                  Sum(n) == IF n = 0 THEN 0 ELSE remapNet.polls[n] + Sum(n - 1)
              IN Sum(MaxRemapRuns)

\* The folder input (disabled while processing): no files, files with a
\* .txt among them, or files without one.
handleFolderSelection(files) ==
    /\ ~remap.isProcessing
    /\ remap' = [remap EXCEPT !.filesSelected = (files = "txt")]
    /\ UNCHANGED <<remapNet, remapObs, splitVars, streamVars, augVars, laterVars>>

\* startRemap's own guard, which is also the button's disabled prop.
RemapRefused == ~remap.filesSelected \/ remap.isProcessing

startRemap ==
    /\ ~RemapRefused
    /\ remapNet.runs + remapNet.start < MaxRemapRuns
    /\ remap' = [remap EXCEPT !.isProcessing = TRUE, !.progress = 0]
    /\ remapNet' = [remapNet EXCEPT !.start = @ + 1]
    /\ remapObs' = [errors |-> 0]
    /\ UNCHANGED <<splitVars, streamVars, augVars, laterVars>>

\* start_remap_annotation answered ok: setInterval(..., 500).
startRemapOk ==
    /\ remapNet.start > 0
    /\ remapNet' = [remapNet EXCEPT !.start = @ - 1, !.runs = @ + 1,
                                    !.timers = @ \cup {remapNet.runs + 1}]
    /\ UNCHANGED <<remap, remapObs, splitVars, streamVars, augVars, laterVars>>

startRemapFail ==
    /\ remapNet.start > 0
    /\ remap' = [remap EXCEPT !.isProcessing = FALSE]
    /\ remapNet' = [remapNet EXCEPT !.start = @ - 1]
    /\ UNCHANGED <<remapObs, splitVars, streamVars, augVars, laterVars>>

\* Interval id fires: its callback sends get_remap_annotation_progress.
RemapPollTick(id) ==
    /\ id \in remapNet.timers
    /\ RemapPolls < MaxPolls
    /\ remapNet' = [remapNet EXCEPT !.polls[id] = @ + 1]
    /\ UNCHANGED <<remap, remapObs, splitVars, streamVars, augVars, laterVars>>

\* The callback's terminal test.
RemapDone(data) == data.progress >= 100

RemapPollOk(id, data) ==
    /\ remapNet.polls[id] > 0
    /\ remap' = [remap EXCEPT !.progressInfo = data, !.progress = data.progress,
                              !.isProcessing = IF RemapDone(data) THEN FALSE ELSE @]
    /\ remapNet' = [remapNet EXCEPT !.polls[id] = @ - 1,
                                    !.timers = IF RemapDone(data) THEN @ \ {id} ELSE @]
    /\ remapObs' = [errors |-> 0]
    /\ UNCHANGED <<splitVars, streamVars, augVars, laterVars>>

\* The response was not ok or the fetch threw: the catch clears the interval
\* and the processing flag.
RemapPollFail(id) ==
    /\ remapNet.polls[id] > 0
    /\ remap' = [remap EXCEPT !.isProcessing = FALSE]
    /\ remapNet' = [remapNet EXCEPT !.polls[id] = @ - 1, !.timers = @ \ {id}]
    /\ remapObs' = [errors |-> Min(remapObs.errors + 1, MaxErrors)]
    /\ UNCHANGED <<splitVars, streamVars, augVars, laterVars>>

RemapNext ==
    \/ \E files \in {"none", "txt", "other"} : handleFolderSelection(files)
    \/ startRemap
    \/ startRemapOk
    \/ startRemapFail
    \/ \E id \in RemapIds : RemapPollTick(id)
    \/ \E id \in RemapIds, data \in Samples : RemapPollOk(id, data)
    \/ \E id \in RemapIds : RemapPollFail(id)

\* ===================================================== augmentation page
\* get_augmentation_progress: {current, total, progress, status}.
AugSample(c, t, p, st) == [current |-> c, total |-> t, progress |-> p, status |-> st]
AugSamples == {AugSample(0, 0, 0, "Idle"), AugSample(250, 500, 50, "Processing"),
               AugSample(500, 500, 100, "Completed"),
               \* a run that had no image to process
               AugSample(0, 0, 100, "success")}

ErrProgress == "Error checking progress"
ErrAugment == "Failed to start augmentation"

AugInit ==
    /\ aug = [availability |-> SplitFlags(FALSE, FALSE, FALSE),
              loading |-> TRUE,
              error |-> Null,
              success |-> FALSE,
              isProcessing |-> FALSE,
              snackbarOpen |-> FALSE,
              progress |-> AugSample(0, 0, 0, "Idle")]
    \* Every checkProgress chain either waits for its poll's answer (polls)
    \* or for its 500 ms timeout (timeouts).
    /\ augNet = [start |-> 0, polls |-> 0, timeouts |-> 0]

AugAvailabilityOk(data) ==
    /\ aug.loading
    /\ aug' = [aug EXCEPT !.availability = data, !.success = TRUE, !.loading = FALSE]
    /\ UNCHANGED <<augNet, splitVars, streamVars, remapVars, laterVars>>

AugAvailabilityFail ==
    /\ aug.loading
    /\ aug' = [aug EXCEPT !.error = ErrAvail, !.loading = FALSE]
    /\ UNCHANGED <<augNet, splitVars, streamVars, remapVars, laterVars>>

\* The Start Augmentation button: disabled={isProcessing}.
AugStartDisabled == aug.isProcessing

\* startAugmentation: checkProgress() sends its first poll, then the start
\* request is sent.
startAugmentation ==
    /\ ~AugStartDisabled
    /\ augNet.start < MaxAugStarts
    /\ augNet.polls + augNet.timeouts < MaxAugChains
    /\ aug' = [aug EXCEPT !.error = Null, !.isProcessing = TRUE,
                          !.progress = AugSample(0, 0, 0, "Starting...")]
    /\ augNet' = [augNet EXCEPT !.polls = @ + 1, !.start = @ + 1]
    /\ UNCHANGED <<splitVars, streamVars, remapVars, laterVars>>

\* start_augmentation answered ok: logged.
startAugmentationOk ==
    /\ augNet.start > 0
    /\ augNet' = [augNet EXCEPT !.start = @ - 1]
    /\ UNCHANGED <<aug, splitVars, streamVars, remapVars, laterVars>>

startAugmentationFail ==
    /\ augNet.start > 0
    /\ aug' = [aug EXCEPT !.error = ErrAugment, !.isProcessing = FALSE]
    /\ augNet' = [augNet EXCEPT !.start = @ - 1]
    /\ UNCHANGED <<splitVars, streamVars, remapVars, laterVars>>

\* checkProgress's terminal test.
AugDone(data) == data.total > 0 /\ data.current >= data.total

\* checkProgress after an ok response: done, or the next timeout is set.
checkProgressOk(data) ==
    /\ augNet.polls > 0
    /\ IF AugDone(data)
       THEN /\ aug' = [aug EXCEPT !.progress = data, !.isProcessing = FALSE,
                                  !.snackbarOpen = TRUE]
            /\ augNet' = [augNet EXCEPT !.polls = @ - 1]
       ELSE /\ aug' = [aug EXCEPT !.progress = data]
            /\ augNet' = [augNet EXCEPT !.polls = @ - 1, !.timeouts = @ + 1]
    /\ UNCHANGED <<splitVars, streamVars, remapVars, laterVars>>

\* checkProgress's catch: no further timeout.
checkProgressFail ==
    /\ augNet.polls > 0
    /\ aug' = [aug EXCEPT !.error = ErrProgress, !.isProcessing = FALSE]
    /\ augNet' = [augNet EXCEPT !.polls = @ - 1]
    /\ UNCHANGED <<splitVars, streamVars, remapVars, laterVars>>

\* A timeout set by checkProgress fires: checkProgress sends the next poll.
AugTimeout ==
    /\ augNet.timeouts > 0
    /\ augNet' = [augNet EXCEPT !.timeouts = @ - 1, !.polls = @ + 1]
    /\ UNCHANGED <<aug, splitVars, streamVars, remapVars, laterVars>>

AugSnackbarClose ==
    /\ aug.snackbarOpen
    /\ aug' = [aug EXCEPT !.snackbarOpen = FALSE]
    /\ UNCHANGED <<augNet, splitVars, streamVars, remapVars, laterVars>>

AugNext ==
    \/ \E data \in SplitSnapshots : AugAvailabilityOk(data)
    \/ AugAvailabilityFail
    \/ startAugmentation
    \/ startAugmentationOk
    \/ startAugmentationFail
    \/ \E data \in AugSamples : checkProgressOk(data)
    \/ checkProgressFail
    \/ AugTimeout
    \/ AugSnackbarClose

\* ================================================ camera-calibration page
\* (src/unnamed/part_006, second component).  The values of the parameter
\* form travel only in the body of the save request and are left out.
CalibOps == {"save", "calibrate", "generate", "undistort", "uploadMatrix",
             "uploadUndistorted"}

\* uploadStatus texts (their variable parts left out).
StSaving == "Saving calibration parameters..."
StSaved == "Calibration parameters saved successfully!"
StSaveFailed == "Failed to save parameters"
StSelected == "Selected calibration images. Ready to process."
StNoFiles == "No files selected."
StSelectFirst == "Please select calibration images first"
StWorking == "Processing..."
StDone == "completed successfully"
StFailedReset == "failed. Please press the reset button."
StFailed == "failed"
StError == "Error"

CalibInit ==
    /\ calib = [filesSelected |-> FALSE,
                uploadStatus |-> "",
                isProcessing |-> FALSE,
                error |-> Null,
                loadingParams |-> TRUE,
                progress |-> 0,
                calibrationSuccess |-> FALSE,
                newMatrixSuccess |-> FALSE,
                undistortSuccess |-> FALSE,
                enableStartCalibration |-> FALSE,
                enableNewMatrix |-> FALSE,
                enableUndistort |-> FALSE,
                hasError |-> FALSE]
    \* The operations whose request is unanswered.
    /\ calibNet = [ops |-> {}]
    \* The operations that succeeded since the last resetProgress.
    /\ calibObs = [done |-> {}]

\* setProgress(prev => prev + k).
Advance(p, k) == Min(p + k, MaxCalibProgress)

\* resetProgress applied to state c.
resetProgress(c) ==
    [c EXCEPT !.progress = 0, !.calibrationSuccess = FALSE, !.newMatrixSuccess = FALSE,
              !.undistortSuccess = FALSE, !.uploadStatus = "", !.filesSelected = FALSE,
              !.enableNewMatrix = FALSE, !.enableStartCalibration = FALSE,
              !.enableUndistort = FALSE, !.hasError = FALSE]

\* loadCalibrationParams: "ok", "missing" (404), or "failed" (another status
\* or a throw).
loadCalibrationParams(outcome) ==
    /\ calib.loadingParams
    /\ calib' = [calib EXCEPT
                   !.loadingParams = FALSE,
                   !.error = CASE outcome = "ok" -> Null
                               [] outcome = "missing" -> "No saved calibration parameters found."
                               [] OTHER -> "Failed to load parameters",
                   !.hasError = IF outcome = "failed" THEN TRUE ELSE @]
    /\ UNCHANGED <<calibNet, calibObs, besidesCalib>>

\* CalibBusy of a page that never disables anything.
CalibNeverBusy == FALSE

\* Every input and button of the page but the parameter fields:
\* disabled={isProcessing}.
CalibBusy == calib.isProcessing

\* How a request ends: answered ok, answered with another status, or thrown.
Outcomes == {"ok", "rejected", "threw"}

\* An operation's handler up to its fetch.
CalibSend(op, status) ==
    /\ calib' = [calib EXCEPT !.isProcessing = TRUE, !.uploadStatus = status]
    /\ calibNet' = [calibNet EXCEPT !.ops = @ \cup {op}]
    /\ UNCHANGED <<calibObs, besidesCalib>>

\* An operation's handler from its response to the end of its finally; `new`
\* is the state its branch leaves, `done` what the observer then knows.
CalibSettle(op, new, done) ==
    /\ op \in calibNet.ops
    /\ calib' = [new EXCEPT !.isProcessing = FALSE]
    /\ calibNet' = [calibNet EXCEPT !.ops = @ \ {op}]
    /\ calibObs' = [calibObs EXCEPT !.done = done]
    /\ UNCHANGED besidesCalib

saveCalibrationParams ==
    /\ ~CalibBusy
    /\ CalibSend("save", StSaving)

saveCalibrationParamsSettled(outcome) ==
    /\ outcome \in Outcomes \cup {"unparsable"}
    /\ CalibSettle("save",
                [calib EXCEPT !.uploadStatus = CASE outcome = "ok" -> StSaved
                                                 [] outcome = "rejected" -> StSaveFailed
                                                 [] OTHER -> StError],
                calibObs.done)

\* The folder input's onChange, with files chosen or with none.
handleFileSelection(files) ==
    /\ ~CalibBusy
    /\ IF files = "some"
       THEN /\ calib' = [calib EXCEPT !.filesSelected = TRUE, !.uploadStatus = StSelected,
                                      !.progress = Advance(@, 25),
                                      !.enableStartCalibration = TRUE]
            /\ UNCHANGED calibObs
       ELSE /\ calib' = [resetProgress(calib) EXCEPT !.uploadStatus = StNoFiles]
            /\ calibObs' = [done |-> {}]
    /\ UNCHANGED <<calibNet, besidesCalib>>

\* The Start Calibration button: disabled={!enableStartCalibration || isProcessing}.
CalibrationDisabled == ~calib.enableStartCalibration \/ CalibBusy

handleStartCalibration ==
    /\ ~CalibrationDisabled
    /\ IF ~calib.filesSelected
       THEN /\ calib' = [calib EXCEPT !.uploadStatus = StSelectFirst]
            /\ UNCHANGED <<calibNet, calibObs, besidesCalib>>
       ELSE CalibSend("calibrate", StWorking)

\* upload_calibration_images answered: "ok", "rejected" (not ok, with or
\* without - "unparsable" - a JSON body), or the fetch threw.
handleStartCalibrationSettled(outcome) ==
    /\ outcome \in Outcomes \cup {"unparsable"}
    /\ CalibSettle("calibrate",
                CASE outcome = "ok" ->
                       [calib EXCEPT !.calibrationSuccess = TRUE, !.uploadStatus = StDone,
                                     !.progress = Advance(@, 25), !.enableNewMatrix = TRUE]
                  [] outcome = "rejected" ->
                       [calib EXCEPT !.hasError = TRUE, !.uploadStatus = StFailedReset]
                  [] outcome = "unparsable" ->
                       [calib EXCEPT !.hasError = TRUE, !.calibrationSuccess = FALSE,
                                     !.uploadStatus = StFailedReset]
                  [] OTHER ->
                       [calib EXCEPT !.hasError = TRUE, !.uploadStatus = StError],
                IF outcome = "ok" THEN calibObs.done \cup {"calibrate"} ELSE calibObs.done)

\* The Clear Selection button, rendered while files are selected.
clearSelection ==
    /\ calib.filesSelected
    /\ ~CalibBusy
    /\ calib' = resetProgress(calib)
    /\ calibObs' = [done |-> {}]
    /\ UNCHANGED <<calibNet, besidesCalib>>

\* GenerateDisabled of a button that only looks at the processing flag.
GenerateDisabledBusyOnly == CalibBusy

\* The Generate New Camera Matrix button: disabled={isProcessing || !enableNewMatrix}.
GenerateDisabled == CalibBusy \/ ~calib.enableNewMatrix

handleGenerateNewMatrix ==
    /\ ~GenerateDisabled
    /\ CalibSend("generate", StWorking)

handleGenerateNewMatrixSettled(outcome) ==
    /\ outcome \in Outcomes \cup {"unparsable"}
    /\ CalibSettle("generate",
                CASE outcome = "ok" ->
                       [calib EXCEPT !.uploadStatus = StDone, !.newMatrixSuccess = TRUE,
                                     !.progress = Advance(@, 25), !.enableUndistort = TRUE]
                  [] outcome = "rejected" ->
                       [calib EXCEPT !.hasError = TRUE, !.uploadStatus = StFailedReset]
                  [] OTHER ->
                       [calib EXCEPT !.hasError = TRUE, !.uploadStatus = StError],
                IF outcome = "ok" THEN calibObs.done \cup {"generate"} ELSE calibObs.done)

\* The Undistort Calibration Images button: disabled={isProcessing || !enableUndistort}.
UndistortDisabled == CalibBusy \/ ~calib.enableUndistort

handleUndistortImages ==
    /\ ~UndistortDisabled
    /\ CalibSend("undistort", StWorking)

\* A response that is not ok resets the page.
handleUndistortImagesSettled(outcome) ==
    /\ outcome \in Outcomes \cup {"unparsable"}
    /\ CalibSettle("undistort",
                CASE outcome = "ok" ->
                       [calib EXCEPT !.uploadStatus = StDone, !.undistortSuccess = TRUE,
                                     !.progress = Advance(@, 25)]
                  [] outcome = "rejected" ->
                       [resetProgress(calib) EXCEPT !.uploadStatus = StFailed]
                  [] OTHER ->
                       [calib EXCEPT !.uploadStatus = StError],
                CASE outcome = "ok" -> calibObs.done \cup {"undistort"}
                  [] outcome = "rejected" -> {}
                  [] OTHER -> calibObs.done)

\* The camera-matrix file input's onChange with a file chosen.
handleUploadMatrixFile ==
    /\ ~CalibBusy
    /\ CalibSend("uploadMatrix", StWorking)

handleUploadMatrixFileSettled(outcome) ==
    /\ outcome \in Outcomes \cup {"unparsable"}
    /\ CalibSettle("uploadMatrix",
                CASE outcome = "ok" ->
                       [calib EXCEPT !.uploadStatus = StDone, !.progress = Advance(@, 50),
                                     !.newMatrixSuccess = TRUE, !.enableNewMatrix = TRUE]
                  [] outcome = "rejected" ->
                       [resetProgress(calib) EXCEPT !.uploadStatus = StFailed]
                  [] OTHER ->
                       [calib EXCEPT !.uploadStatus = StError],
                CASE outcome = "ok" -> calibObs.done \cup {"uploadMatrix"}
                  [] outcome = "rejected" -> {}
                  [] OTHER -> calibObs.done)

\* The undistorted-matrix file input's onChange with a file chosen.
handleUploadUndistortedMatrix ==
    /\ ~CalibBusy
    /\ CalibSend("uploadUndistorted", StWorking)

handleUploadUndistortedMatrixSettled(outcome) ==
    /\ outcome \in Outcomes \cup {"unparsable"}
    /\ CalibSettle("uploadUndistorted",
                CASE outcome = "ok" ->
                       [calib EXCEPT !.uploadStatus = StDone, !.progress = Advance(@, 75),
                                     !.newMatrixSuccess = TRUE, !.enableUndistort = TRUE]
                  [] outcome = "rejected" ->
                       [resetProgress(calib) EXCEPT !.uploadStatus = StFailed]
                  [] OTHER ->
                       [calib EXCEPT !.uploadStatus = StError],
                CASE outcome = "ok" -> calibObs.done \cup {"uploadUndistorted"}
                  [] outcome = "rejected" -> {}
                  [] OTHER -> calibObs.done)

\* The Reset Progress button.
CalibReset ==
    /\ ~CalibBusy
    /\ calib' = resetProgress(calib)
    /\ calibObs' = [done |-> {}]
    /\ UNCHANGED <<calibNet, besidesCalib>>

CalibNext ==
    \/ \E outcome \in {"ok", "missing", "failed"} : loadCalibrationParams(outcome)
    \/ saveCalibrationParams
    \/ \E outcome \in Outcomes : saveCalibrationParamsSettled(outcome)
    \/ \E files \in {"some", "none"} : handleFileSelection(files)
    \/ handleStartCalibration
    \/ \E outcome \in Outcomes \cup {"unparsable"} : handleStartCalibrationSettled(outcome)
    \/ clearSelection
    \/ handleGenerateNewMatrix
    \/ \E outcome \in Outcomes : handleGenerateNewMatrixSettled(outcome)
    \/ handleUndistortImages
    \/ \E outcome \in Outcomes : handleUndistortImagesSettled(outcome)
    \/ handleUploadMatrixFile
    \/ \E outcome \in Outcomes : handleUploadMatrixFileSettled(outcome)
    \/ handleUploadUndistortedMatrix
    \/ \E outcome \in Outcomes : handleUploadUndistortedMatrixSettled(outcome)
    \/ CalibReset

\* ============================================ AuthContext, ProtectedRoute
\* (src/unnamed/part_004: the session-cookie AuthProvider and the route
\* guard that reads it)
Roles == {"admin", "technician", "nurse"}

\* The allowedRoles prop of a guarded page: absent, or a list of roles.
Allowed(given, roles) == [given |-> given, roles |-> roles]
AllowedProps == {Allowed(FALSE, {}), Allowed(TRUE, {"admin"}),
                 Allowed(TRUE, {"admin", "technician"})}

\* hasAnyRole with the role test left out.
hasAnyRoleAlways(userRole, allowedRoles) == TRUE

\* hasAnyRole: if (!userRole) return false; return allowedRoles.includes(userRole).
hasAnyRole(userRole, allowedRoles) ==
    IF userRole = Null THEN FALSE ELSE userRole \in allowedRoles

\* What is on screen where a guarded page is mounted: AuthProvider's
\* "Loading..." while isLoading, else ProtectedRoute's null or its children.
ProtectedRoute(a, allowedRoles) ==
    IF a.isLoading THEN "loading"
    ELSE IF ~a.isAuthenticated
            \/ (allowedRoles.given /\ ~hasAnyRole(a.userRole, allowedRoles.roles))
         THEN "null"
         ELSE "children"

\* ProtectedRoute's effect: where router.push sends the browser, if anywhere.
Redirect(a, allowedRoles, route) ==
    IF a.isLoading THEN route
    ELSE IF ~a.isAuthenticated THEN "/login"
    ELSE IF allowedRoles.given /\ ~hasAnyRole(a.userRole, allowedRoles.roles)
         THEN "/unauthorized"
         ELSE route

AuthInit ==
    /\ auth = [isAuthenticated |-> FALSE, userRole |-> Null, isLoading |-> TRUE]
    \* check_session is on its way.
    /\ authNet = [check |-> 1, logins |-> 0, logouts |-> 0]
    \* The guarded page that is mounted, what is rendered in its place and
    \* the route last pushed.
    /\ authView = [allowedRoles |-> Allowed(FALSE, {}), rendered |-> "loading",
                   route |-> "/page"]
    \* Whether a session check or a login succeeded and no logout completed
    \* since, and how the last logout request ended ("none" yet).
    /\ authObs = [granted |-> FALSE, logout |-> "none"]

\* A state change of the provider, rendered: the guard re-renders and its
\* effect runs.
AuthCommit(new, allowedRoles, route) ==
    /\ auth' = new
    /\ authView' = [allowedRoles |-> allowedRoles,
                    rendered |-> ProtectedRoute(new, allowedRoles),
                    route |-> Redirect(new, allowedRoles, route)]
    /\ UNCHANGED besidesAuth

\* check_session answered ok; data.role may be missing.
checkAuthOk(role) ==
    /\ authNet.check > 0
    /\ authNet' = [authNet EXCEPT !.check = @ - 1]
    /\ authObs' = [authObs EXCEPT !.granted = TRUE]
    /\ AuthCommit([auth EXCEPT !.isAuthenticated = TRUE, !.userRole = role,
                               !.isLoading = FALSE],
                  authView.allowedRoles, authView.route)

\* check_session answered not ok, or threw.
checkAuthFail ==
    /\ authNet.check > 0
    /\ authNet' = [authNet EXCEPT !.check = @ - 1]
    /\ UNCHANGED authObs
    /\ AuthCommit([auth EXCEPT !.isLoading = FALSE],
                  authView.allowedRoles, authView.route)

\* The browser opens a guarded page.
Navigate(allowedRoles) ==
    /\ allowedRoles \in AllowedProps
    /\ UNCHANGED <<authNet, authObs>>
    /\ AuthCommit(auth, allowedRoles, "/page")

\* login(email, password), called from a rendered child, up to its fetch.
login ==
    /\ ~auth.isLoading
    /\ authNet.logins < MaxLogins
    /\ authNet' = [authNet EXCEPT !.logins = @ + 1]
    /\ UNCHANGED <<auth, authView, authObs, besidesAuth>>

loginOk(role) ==
    /\ authNet.logins > 0
    /\ authNet' = [authNet EXCEPT !.logins = @ - 1]
    /\ authObs' = [authObs EXCEPT !.granted = TRUE]
    /\ AuthCommit([auth EXCEPT !.userRole = role, !.isAuthenticated = TRUE],
                  authView.allowedRoles, authView.route)

\* attempt_login answered not ok, its body did not parse, or the fetch
\* threw: the error is thrown on to the caller.
loginFail ==
    /\ authNet.logins > 0
    /\ authNet' = [authNet EXCEPT !.logins = @ - 1]
    /\ UNCHANGED <<auth, authView, authObs, besidesAuth>>

\* logout(), up to its fetch.
logout ==
    /\ ~auth.isLoading
    /\ authNet.logouts < MaxLogouts
    /\ authNet' = [authNet EXCEPT !.logouts = @ + 1]
    /\ UNCHANGED <<auth, authView, authObs, besidesAuth>>

\* AfterLogout that clears the session only if the request succeeded.
AfterLogoutOnSuccess(a, outcome) ==
    IF outcome = "ok" THEN [a EXCEPT !.isAuthenticated = FALSE, !.userRole = Null] ELSE a

\* logout's finally.
AfterLogout(a, outcome) == [a EXCEPT !.isAuthenticated = FALSE, !.userRole = Null]

\* The logout request settled: answered (whatever the status) or thrown.
logoutSettled(outcome) ==
    /\ authNet.logouts > 0
    /\ authNet' = [authNet EXCEPT !.logouts = @ - 1]
    /\ authObs' = [granted |-> FALSE, logout |-> outcome]
    /\ AuthCommit(AfterLogout(auth, outcome), authView.allowedRoles, "/login")

AuthNext ==
    \/ \E role \in Roles \cup {Null} : checkAuthOk(role)
    \/ checkAuthFail
    \/ \E allowedRoles \in AllowedProps : Navigate(allowedRoles)
    \/ login
    \/ \E role \in Roles \cup {Null} : loginOk(role)
    \/ loginFail
    \/ logout
    \/ \E outcome \in {"ok", "threw"} : logoutSettled(outcome)

\* ================================================= camera-settings form
\* (imagecapture/page.tsx, CameraSettingsForm: the change handlers and the
\* debounced sendUpdate; sendLedUpdate is built by the same debounce.  The
\* answer of /calibrate changes no state.)
ParamSettings == {10, 20, 30}

CamInit ==
    \* `render` numbers the renders: every render builds a new sendUpdate,
    \* that is a new debounce closure with a timeoutId of its own.
    /\ cam = [parameters |-> 10, render |-> 1]
    \* The timeouts that are set, oldest first: the closure (render) that set
    \* it and the parameters it will send.
    /\ camNet = [timers |-> <<>>]
    \* Of the present burst (the changes each made while the timeout of the
    \* one before was still to fire): the changes, the requests sent and the
    \* parameters of the last request.
    /\ camObs = [changes |-> 0, sent |-> 0, last |-> 0]

\* clearTimeout(timeoutId) in the closure of render r.
Cleared(timers, r) == SelectSeq(timers, LAMBDA t : t.render # r)

\* debounce's returned function, called in render r with params.
debounce(timers, r, params) ==
    Append(Cleared(timers, r), [render |-> r, params |-> params])

\* handleSliderChange / handleInputChange / handleChange: setParameters and
\* sendUpdate of the render the handler belongs to, then the re-render.
handleSliderChange(value) ==
    /\ cam.render < MaxRenders
    /\ cam' = [parameters |-> value, render |-> cam.render + 1]
    /\ camNet' = [timers |-> debounce(camNet.timers, cam.render, value)]
    /\ camObs' = IF camNet.timers = <<>>
                 THEN [changes |-> 1, sent |-> 0, last |-> 0]
                 ELSE [camObs EXCEPT !.changes = @ + 1]
    /\ UNCHANGED besidesCam

\* The oldest timeout fires: func(...args) posts its params to /calibrate.
\* Every timeout has the same delay, so they fire in the order they were set.
CamTimeout ==
    /\ camNet.timers # <<>>
    /\ camNet' = [timers |-> Tail(camNet.timers)]
    /\ camObs' = [camObs EXCEPT !.sent = Min(@ + 1, MaxNotified),
                                !.last = Head(camNet.timers).params]
    /\ UNCHANGED <<cam, besidesCam>>

CamNext ==
    \/ \E value \in ParamSettings : handleSliderChange(value)
    \/ CamTimeout

\* ------------------------------------------------ user management page
\* src/Frontend/src/app/usermanagment/page.tsx.  A user is its user_id and
\* one editable field; the list is a sequence, as the users array is.
User(id, name) == [user_id |-> id, first_name |-> name]

Names == {"a", "b"}

\* What GET /users answers when the page is mounted.
FetchedUsers == <<User(1, "a"), User(2, "a")>>

\* currentUser === null.
NoUser == User(0, "")

\* The id the server gives to the next created user.
NextUserId(list) == Len(FetchedUsers) + 1 + Cardinality({i \in DOMAIN list : list[i].user_id > Len(FetchedUsers)})

\* users.filter(user => user.user_id !== userId)
Filtered(list, userId) == SelectSeq(list, LAMBDA u : u.user_id # userId)

\* users.map(u => u.user_id === user.user_id ? updatedUser.user : u)
Mapped(list, user) ==
    [i \in DOMAIN list |-> IF list[i].user_id = user.user_id THEN user ELSE list[i]]

\* [...users, createdUser.user]
Spread(list, user) == Append(list, user)

UsersInit ==
    /\ usersPage = [users |-> <<>>, isLoading |-> TRUE, isEditing |-> FALSE,
                    currentUser |-> NoUser, isCreateDialogOpen |-> FALSE,
                    newUser |-> ""]
    \* Requests in flight, each with the users array of the render whose
    \* handler sent it; issued counts the requests of the session.
    /\ usersNet = [requests |-> <<>>, issued |-> 0]
    \* The fetched list with the changes the server has confirmed.
    /\ usersObs = [server |-> <<>>, failed |-> FALSE]

\* The request at position i has been answered.
UsersAnswered(i) ==
    [j \in 1..(Len(usersNet.requests) - 1) |->
        IF j < i THEN usersNet.requests[j] ELSE usersNet.requests[j + 1]]

\* fetchUsers, lines 40-57: the answer of GET /users.
fetchUsersOk ==
    /\ usersPage.isLoading
    /\ usersPage' = [usersPage EXCEPT !.users = FetchedUsers, !.isLoading = FALSE]
    /\ usersObs' = [usersObs EXCEPT !.server = FetchedUsers \o @]
    /\ UNCHANGED <<usersNet, besidesUsers>>

fetchUsersFail ==
    /\ usersPage.isLoading
    /\ usersPage' = [usersPage EXCEPT !.isLoading = FALSE]
    /\ UNCHANGED <<usersNet, usersObs, besidesUsers>>

\* handleDeleteUser up to its await: the row's delete button.
handleDeleteUser(userId) ==
    /\ usersNet.issued < MaxUserRequests
    /\ \E i \in DOMAIN usersPage.users : usersPage.users[i].user_id = userId
    /\ usersNet' = [requests |-> Append(usersNet.requests,
                        [kind |-> "delete", user |-> User(userId, ""),
                         users |-> usersPage.users]),
                    issued |-> usersNet.issued + 1]
    /\ UNCHANGED <<usersPage, usersObs, besidesUsers>>

\* handleDeleteUser after its await, lines 91-97.
handleDeleteUserSettled(i, ok) ==
    /\ i \in DOMAIN usersNet.requests
    /\ usersNet.requests[i].kind = "delete"
    /\ usersNet' = [usersNet EXCEPT !.requests = UsersAnswered(i)]
    /\ IF ok
       THEN /\ usersPage' = [usersPage EXCEPT !.users =
                   Filtered(usersNet.requests[i].users, usersNet.requests[i].user.user_id)]
            /\ usersObs' = [usersObs EXCEPT !.server =
                   Filtered(@, usersNet.requests[i].user.user_id)]
       ELSE /\ usersObs' = [usersObs EXCEPT !.failed = TRUE]
            /\ UNCHANGED usersPage
    /\ UNCHANGED besidesUsers

\* The row's edit button, lines 188-191.
EditClick(i) ==
    /\ i \in DOMAIN usersPage.users
    /\ usersPage' = [usersPage EXCEPT !.currentUser = usersPage.users[i],
                                      !.isEditing = TRUE]
    /\ UNCHANGED <<usersNet, usersObs, besidesUsers>>

\* A field of the edit dialog is typed in.
EditField(name) ==
    /\ usersPage.isEditing
    /\ usersPage.currentUser # NoUser
    /\ usersPage' = [usersPage EXCEPT !.currentUser.first_name = name]
    /\ UNCHANGED <<usersNet, usersObs, besidesUsers>>

\* Dialog onClose and Cancel of the edit dialog.
EditClose ==
    /\ usersPage.isEditing
    /\ usersPage' = [usersPage EXCEPT !.isEditing = FALSE]
    /\ UNCHANGED <<usersNet, usersObs, besidesUsers>>

\* handleUpdateUser up to its await: Save of the edit dialog.
handleUpdateUser ==
    /\ usersPage.isEditing
    /\ usersPage.currentUser # NoUser
    /\ usersNet.issued < MaxUserRequests
    /\ usersNet' = [requests |-> Append(usersNet.requests,
                        [kind |-> "update", user |-> usersPage.currentUser,
                         users |-> usersPage.users]),
                    issued |-> usersNet.issued + 1]
    /\ UNCHANGED <<usersPage, usersObs, besidesUsers>>

\* handleUpdateUser after its await, lines 115-126.
handleUpdateUserSettled(i, ok) ==
    /\ i \in DOMAIN usersNet.requests
    /\ usersNet.requests[i].kind = "update"
    /\ usersNet' = [usersNet EXCEPT !.requests = UsersAnswered(i)]
    /\ IF ok
       THEN /\ usersPage' = [usersPage EXCEPT
                   !.users = Mapped(usersNet.requests[i].users, usersNet.requests[i].user),
                   !.isEditing = FALSE,
                   !.currentUser = NoUser]
            /\ usersObs' = [usersObs EXCEPT !.server =
                   Mapped(@, usersNet.requests[i].user)]
       ELSE /\ usersObs' = [usersObs EXCEPT !.failed = TRUE]
            /\ UNCHANGED usersPage
    /\ UNCHANGED besidesUsers

\* The New User button, lines 205-212.
CreateClick ==
    /\ ~usersPage.isCreateDialogOpen
    /\ usersPage' = [usersPage EXCEPT !.isCreateDialogOpen = TRUE]
    /\ UNCHANGED <<usersNet, usersObs, besidesUsers>>

\* A field of the create dialog is typed in.
CreateField(name) ==
    /\ usersPage.isCreateDialogOpen
    /\ usersPage' = [usersPage EXCEPT !.newUser = name]
    /\ UNCHANGED <<usersNet, usersObs, besidesUsers>>

\* Dialog onClose and Cancel of the create dialog.
CreateClose ==
    /\ usersPage.isCreateDialogOpen
    /\ usersPage' = [usersPage EXCEPT !.isCreateDialogOpen = FALSE]
    /\ UNCHANGED <<usersNet, usersObs, besidesUsers>>

\* handleCreateUser up to its await: Create of the create dialog.
handleCreateUser ==
    /\ usersPage.isCreateDialogOpen
    /\ usersNet.issued < MaxUserRequests
    /\ usersNet' = [requests |-> Append(usersNet.requests,
                        [kind |-> "create", user |-> User(0, usersPage.newUser),
                         users |-> usersPage.users]),
                    issued |-> usersNet.issued + 1]
    /\ UNCHANGED <<usersPage, usersObs, besidesUsers>>

\* handleCreateUser after its await, lines 144-155: the server answers with
\* the created user, which has its new id.
handleCreateUserSettled(i, ok) ==
    /\ i \in DOMAIN usersNet.requests
    /\ usersNet.requests[i].kind = "create"
    /\ usersNet' = [usersNet EXCEPT !.requests = UsersAnswered(i)]
    /\ IF ok
       THEN LET createdUser == User(NextUserId(usersObs.server),
                                    usersNet.requests[i].user.first_name)
            IN  /\ usersPage' = [usersPage EXCEPT
                       !.users = Spread(usersNet.requests[i].users, createdUser),
                       !.isCreateDialogOpen = FALSE,
                       !.newUser = ""]
                /\ usersObs' = [usersObs EXCEPT !.server = Append(@, createdUser)]
       ELSE /\ usersObs' = [usersObs EXCEPT !.failed = TRUE]
            /\ UNCHANGED usersPage
    /\ UNCHANGED besidesUsers

UsersNext ==
    \/ fetchUsersOk
    \/ fetchUsersFail
    \/ \E userId \in 1..Len(FetchedUsers) + MaxUserRequests : handleDeleteUser(userId)
    \/ \E i \in 1..MaxUserRequests, ok \in BOOLEAN : handleDeleteUserSettled(i, ok)
    \/ \E i \in 1..Len(FetchedUsers) + MaxUserRequests : EditClick(i)
    \/ \E name \in Names : EditField(name)
    \/ EditClose
    \/ handleUpdateUser
    \/ \E i \in 1..MaxUserRequests, ok \in BOOLEAN : handleUpdateUserSettled(i, ok)
    \/ CreateClick
    \/ \E name \in Names : CreateField(name)
    \/ CreateClose
    \/ handleCreateUser
    \/ \E i \in 1..MaxUserRequests, ok \in BOOLEAN : handleCreateUserSettled(i, ok)

\* ------------------------------------------- dispense verification page
\* src/Frontend/src/app/dispenseverification/page.tsx.
\* What the user can pick in the recipe file dialog: a file that is not
\* JSON, a JSON file that does not parse, one that lacks a dispensing bay,
\* and a whole recipe.
RecipeFiles == {"other", "unparsable", "bayMissing", "recipe"}

\* What the user can pick in the image file dialog.
ImageFiles == {"image", "other"}

\* file.type === 'application/json', line 238.
IsJson(file) == file # "other"

\* JSON.parse and the check of medications and the four bays, lines 249-257.
HasFourBays(file) == file = "recipe"

DispenseInit ==
    /\ dispense = [isInitializing |-> TRUE, initializationError |-> FALSE,
                   recipeSelected |-> FALSE, medicationsData |-> "null",
                   referenceImages |-> FALSE, isVerifying |-> FALSE,
                   verificationResult |-> FALSE, snackbar |-> "closed"]
    \* Requests in flight: selected_recipe and get_recipe_reference_images
    \* carry the file they were made from, verify_dispense is counted.
    /\ dispenseNet = [recipes |-> <<>>, images |-> 0, verifies |-> 0]

\* initializeApp, lines 139-165.
initializeApp(ok) ==
    /\ dispense.isInitializing
    /\ dispense' = [dispense EXCEPT !.isInitializing = FALSE,
                                    !.initializationError = ~ok]
    /\ UNCHANGED <<dispenseNet, besidesDispense>>

\* The page below the two early returns of lines 198 and 213 is rendered.
DispenseRendered == ~dispense.isInitializing /\ ~dispense.initializationError

\* handleFileSelect up to the selected_recipe fetch, lines 234-265.
handleFileSelect(file) ==
    /\ DispenseRendered
    /\ IF IsJson(file) /\ HasFourBays(file)
       THEN /\ Len(dispenseNet.recipes) < MaxRecipeRequests
            /\ dispenseNet' = [dispenseNet EXCEPT !.recipes = Append(@, file)]
            /\ UNCHANGED dispense
       ELSE /\ dispense' = [dispense EXCEPT !.snackbar = "error"]
            /\ UNCHANGED dispenseNet
    /\ UNCHANGED besidesDispense

\* handleFileSelect after the selected_recipe fetch, lines 267-290.
handleFileSelectSettled(ok) ==
    /\ dispenseNet.recipes # <<>>
    /\ IF ok
       THEN /\ dispense' = [dispense EXCEPT !.medicationsData = Head(dispenseNet.recipes),
                                            !.recipeSelected = TRUE,
                                            !.snackbar = "success"]
            /\ dispenseNet' = [dispenseNet EXCEPT !.recipes = Tail(@),
                                                  !.images = Min(@ + 1, MaxRecipeRequests)]
       ELSE /\ dispense' = [dispense EXCEPT !.snackbar = "error"]
            /\ dispenseNet' = [dispenseNet EXCEPT !.recipes = Tail(@)]
    /\ UNCHANGED besidesDispense

\* fetchReferenceImages after its fetch, lines 331-337.
fetchReferenceImages(ok) ==
    /\ dispenseNet.images > 0
    /\ dispenseNet' = [dispenseNet EXCEPT !.images = @ - 1]
    /\ dispense' = [dispense EXCEPT !.referenceImages = @ \/ ok]
    /\ UNCHANGED besidesDispense

\* The Verify Dispense button: disabled={isVerifying}, line 612.
VerifyDisabled == dispense.isVerifying

\* handleVerifyDispenseClick and handleImageSelect up to the verify_dispense
\* fetch, lines 387-412.
handleImageSelect(file) ==
    /\ DispenseRendered
    /\ ~VerifyDisabled
    /\ IF file = "image"
       THEN /\ dispense' = [dispense EXCEPT !.isVerifying = TRUE]
            /\ dispenseNet' = [dispenseNet EXCEPT !.verifies = @ + 1]
       ELSE /\ dispense' = [dispense EXCEPT !.snackbar = "error"]
            /\ UNCHANGED dispenseNet
    /\ UNCHANGED besidesDispense

\* handleImageSelect after the verify_dispense fetch, lines 414-442.
handleImageSelectSettled(ok, passed) ==
    /\ dispenseNet.verifies > 0
    /\ dispenseNet' = [dispenseNet EXCEPT !.verifies = @ - 1]
    /\ dispense' = IF ok
                   THEN [dispense EXCEPT !.verificationResult = TRUE,
                                         !.snackbar = IF passed THEN "success" ELSE "error",
                                         !.isVerifying = FALSE]
                   ELSE [dispense EXCEPT !.snackbar = "error",
                                         !.isVerifying = FALSE]
    /\ UNCHANGED besidesDispense

\* handleSnackbarClose, lines 309-311.
DispenseSnackbarClose ==
    /\ dispense.snackbar # "closed"
    /\ dispense' = [dispense EXCEPT !.snackbar = "closed"]
    /\ UNCHANGED <<dispenseNet, besidesDispense>>

DispenseNext ==
    \/ \E ok \in BOOLEAN : initializeApp(ok)
    \/ \E file \in RecipeFiles : handleFileSelect(file)
    \/ \E ok \in BOOLEAN : handleFileSelectSettled(ok)
    \/ \E ok \in BOOLEAN : fetchReferenceImages(ok)
    \/ \E file \in ImageFiles : handleImageSelect(file)
    \/ \E ok \in BOOLEAN, passed \in BOOLEAN : handleImageSelectSettled(ok, passed)
    \/ DispenseSnackbarClose

Init ==
    /\ SplitInit /\ StreamInit /\ RemapInit /\ AugInit /\ CalibInit
    /\ AuthInit /\ CamInit /\ UsersInit /\ DispenseInit

SpecSplit == Init /\ [][SplitNext]_vars

SpecStream == Init /\ [][StreamNext]_vars

SpecRemap == Init /\ [][RemapNext]_vars

SpecAug == Init /\ [][AugNext]_vars

SpecCalib == Init /\ [][CalibNext]_vars

SpecAuth == Init /\ [][AuthNext]_vars

SpecCam == Init /\ [][CamNext]_vars

SpecUsers == Init /\ [][UsersNext]_vars

SpecDispense == Init /\ [][DispenseNext]_vars

\* Timers fire and every request is answered or fails; the user owes nothing.
StreamFairness ==
    /\ WF_vars(StreamPollTick)
    /\ WF_vars(StreamPollFail)
    /\ WF_vars(\E data \in StreamSamples : StreamPollOk(data))
    /\ WF_vars(startStreamOk) /\ WF_vars(startStreamFail)
    /\ WF_vars(stopStreamOk) /\ WF_vars(stopStreamFail)

FairSpecStream == SpecStream /\ StreamFairness

\* ================================================================ claims
\* C1: of one job at most one start request is unanswered at any time: a
\* second click on Start before the first request resolved sends nothing.
C1_OneStartInFlight == augNet.start <= 1

\* C2: in a stream-image run that reached progress 100, the success toast
\* is raised once, however many samples arrive after the first with 100.
C2_SucceedsOnce == streamObs.created <= 1

Count(what, log) == Cardinality({i \in DOMAIN log : log[i] = what})
Unsorted == StreamFlags(TRUE, TRUE, FALSE, FALSE)

\* C4: when the first snapshot has images and mask_images and neither split
\* nor background_changed, the gate sends split_consumer_reference first,
\* sends change_background only right after split_consumer_reference was
\* answered ok, sends each at most once, and ends with exactly one more
\* fetch of the snapshot.
C4_RemediationOrder ==
    (streamGate.pc # "fetch" /\ streamGate.data = Unsorted)
      => LET log == streamGate.log IN
         /\ log[1] = "avail" /\ log[2] = "split"
         /\ Count("split", log) = 1
         /\ Count("bg", log) <= 1
         /\ \A i \in DOMAIN log : log[i] = "bg" => i = 4 /\ log[3] = "split:ok"
         /\ streamGate.pc = "done"
              => Count("avail", log) = 2 /\ log[Len(log)] = "avail"

\* C4's case: both remediations ran, in order, and the snapshot was
\* fetched again.
C4_Witness ==
    /\ streamGate.pc = "done"
    /\ streamGate.data = Unsorted
    /\ streamGate.log = <<"avail", "split", "split:ok", "bg", "bg:ok", "avail">>

\* C5: when change_background fails, the attempt ends as a failure for the
\* background step (the caller is not told the data is ready), and
\* split_consumer_reference was sent once.
C5_BackgroundFailureReturned ==
    (streamGate.pc = "done" /\ Count("bg:fail", streamGate.log) > 0)
      => /\ ~stream.dataSuccess
         /\ stream.availabilityError = ErrBackground
         /\ Count("split", streamGate.log) <= 1

StreamReady(a) == a.images /\ a.mask_images /\ a.split /\ a.background_changed

\* C6: start_stream_images is in flight only if the latest snapshot shows
\* every flag of the stream-image job.
C6_StartOnlyWhenReady == streamNet.start > 0 => StreamReady(stream.availability)

\* C7: a remap run that has seen one or two failed polls in a row (fewer
\* than three) is still processing.
C7_ThreeFailuresToFail == remapObs.errors \in {1, 2} => remap.isProcessing

\* C8: once the backend is down, a stream-image run that is processing
\* eventually stops processing and its poll interval ends.
C8_PollerGivesUp ==
    (streamNet.down /\ stream.isProcessing)
       ~> (~stream.isProcessing /\ ~streamNet.interval)

SplitQuiet == splitNet.start = 0 /\ splitNet.polls = 0 /\ splitNet.stop = 0
SplitSum == split.splitParams.train + split.splitParams.val + split.splitParams.test

\* C3: once a stop request on a split run has been answered ok, no further
\* poll request is sent and progress, the processed and total counts and the
\* processing flag stay as they are, also when the response of a poll sent
\* before the stop arrives afterwards.  (Stated for the steps that are not
\* the answer to start_split, which the claim does not mention.)
C3_NoChangeAfterStop ==
    [][(splitObs.stop = "stopped" /\ splitObs'.stop = "stopped"
        /\ splitNet'.start = splitNet.start)
         => /\ split'.progress = split.progress
            /\ split'.progressInfo = split.progressInfo
            /\ split'.isProcessing = split.isProcessing
            /\ splitNet'.polls <= splitNet.polls]_vars

\* C9: a split that the backend accepted and that nobody stopped, whose
\* polls returned the three samples of Scenario in order, ends not processing, with progress 100, the last
\* sample in progressInfo, and its success snackbar opened exactly once.
C9_EndToEnd ==
    (splitObs.accepted /\ splitObs.stop = "none" /\ splitObs.inOrder
       /\ splitObs.got = Len(Scenario) /\ SplitQuiet)
      => /\ ~split.isProcessing
         /\ split.progress = 100
         /\ split.progressInfo.progress = 100
         /\ splitObs.notified = 1

\* C10: with percentages that do not sum to 100 no step sends start_split,
\* and a click on Start records the sum error and leaves the processing flag
\* and the progress as they were.
C10_SumRejected ==
    [][SplitSum # 100
         => /\ splitNet'.start <= splitNet.start
            /\ startSplit => /\ split'.splitError = ErrSum
                              /\ split'.isProcessing = split.isProcessing
                              /\ split'.progress = split.progress]_vars

\* C10's case: the sum error on screen for a payload summing to more than
\* 100 (70/30/30), nothing sent.
C10_Witness ==
    /\ split.splitError = ErrSum
    /\ SplitSum > 100
    /\ ~split.loading /\ ~split.isProcessing
    /\ splitNet.start = 0

\* C11: a start request that fails was never shown as running: at the step
\* on which start_stream_image fails the page is not processing.
C11_FailedStartStaysIdle == [][startStreamFail => ~stream.isProcessing]_vars

\* C12: a failed start request leaves an error for the user: the step on
\* which start_remap_annotation fails changes more of the page's state than
\* the processing flag.
C12_StartFailureRecorded ==
    [][startRemapFail
         => [remap' EXCEPT !.isProcessing = TRUE] # [remap EXCEPT !.isProcessing = TRUE]]_vars

\* C13: one stream-image run never shows both the "successfully created" and
\* the "stopped successfully" notification.
C13_OneTerminalNotification == ~(streamObs.created > 0 /\ streamObs.stopped > 0)

\* C14: a run that ends failed carries an error message: the step on which a
\* remap poll fails changes more of the page's state than the processing
\* flag.
C14_PollFailureRecorded ==
    [][(\E id \in RemapIds : RemapPollFail(id))
         => [remap' EXCEPT !.isProcessing = TRUE] # [remap EXCEPT !.isProcessing = TRUE]]_vars

\* C15: of the split page's polls at most one is unanswered at any time.
C15_OnePollOutstanding == splitNet.polls <= 1

\* C16: the augmentation page has at most one checkProgress chain alive (a
\* chain is waiting either for its poll's answer or for its timeout).
C16_OnePollLoop == augNet.polls + augNet.timeouts <= 1

\* C17: while the augmentation page is not processing, no checkProgress
\* timeout is scheduled.
C17_NoTimerWhenIdle == ~aug.isProcessing => augNet.timeouts = 0

\* C18: the stream-image poller sends no poll while start_stream_image is
\* unanswered.
C18_PollAfterAccept == [][StreamPollTick => streamNet.start = 0]_vars

\* C19: the answer of start_split alone does not mark the run complete: it
\* neither changes the progress shown nor opens the success snackbar.
C19_StartDoesNotComplete ==
    [][startSplitOk => /\ split'.progress = split.progress
                       /\ split'.snackbarOpen = split.snackbarOpen]_vars

\* C20: a stream-image poll sample with progress 100 or more ends the run:
\* after it the page is not processing and its interval is cleared.
C20_TerminalAtHundred ==
    [][\A data \in StreamSamples :
         (StreamPollOk(data) /\ data.progress >= 100)
           => (~stream'.isProcessing /\ ~streamNet'.interval)]_vars

\* The normalized sample of an augmentation response, and the terminal rule
\* common to all job kinds.
Normalized(data) ==
    [progressPercent |-> data.progress, processedCount |-> data.current,
     totalCount |-> data.total, rawStatus |-> data.status]
CommonTerminal(s) == s.progressPercent >= 100 \/ s.rawStatus \in {"success", "done"}

\* C21: checkProgress records the fields of the normalized sample and ends
\* its chain (sets no further timeout) exactly when the normalized sample is
\* terminal under the common rule.
C21_NormalizedDecision ==
    [][\A data \in AugSamples :
         checkProgressOk(data)
           => /\ aug'.progress.progress = Normalized(data).progressPercent
              /\ aug'.progress.current = Normalized(data).processedCount
              /\ aug'.progress.total = Normalized(data).totalCount
              /\ CommonTerminal(Normalized(data))
                   <=> (augNet'.timeouts = augNet.timeouts)]_vars

\* C22: the calibration page's progress is between 0 and 100.
C22_ProgressInRange == calib.progress \in 0..100

\* C23: Generate New Camera Matrix is invoked only when, since the last
\* reset, calibration or a camera-matrix upload succeeded, and Undistort
\* Calibration Images only when matrix generation or an undistorted-matrix
\* upload succeeded.
C23_StepsInOrder ==
    [][/\ handleGenerateNewMatrix
            => calibObs.done \cap {"calibrate", "uploadMatrix"} # {}
       /\ handleUndistortImages
            => calibObs.done \cap {"generate", "uploadUndistorted"} # {}]_vars

C23_Witness ==
    /\ "undistort" \in calibNet.ops
    /\ calibObs.done = {"calibrate", "generate"}

\* C24: at most one calibration-page operation is unanswered, the page is
\* processing exactly while one is, and no operation or reset begins while
\* it is processing.
C24_OneOperation ==
    /\ [](/\ Cardinality(calibNet.ops) <= 1
          /\ calib.isProcessing <=> calibNet.ops # {})
    /\ [][(\/ Cardinality(calibNet'.ops) > Cardinality(calibNet.ops)
           \/ CalibReset
           \/ clearSelection) => ~calib.isProcessing]_vars

C24_Witness ==
    /\ calibNet.ops = {}
    /\ ~calib.isProcessing
    /\ calib.uploadStatus = StSaveFailed

\* A step indicator is checked: progress >= k and no error.
Checked(k) == calib.progress >= k /\ ~calib.hasError

\* C25: every checked step indicator stands for a step that succeeded since
\* the last reset.
C25_IndicatorsTruthful ==
    /\ Checked(50) => calibObs.done \cap {"calibrate", "uploadMatrix", "uploadUndistorted"} # {}
    /\ Checked(75) => calibObs.done \cap {"generate", "uploadUndistorted"} # {}
    /\ Checked(100) => "undistort" \in calibObs.done

\* C26: where a guarded page is mounted its children are rendered exactly if
\* the user is authenticated and, when allowedRoles is given, the user's role
\* is one of them.
C26_GuardedChildren ==
    (authView.rendered = "children")
      <=> /\ auth.isAuthenticated
          /\ authView.allowedRoles.given => auth.userRole \in authView.allowedRoles.roles

C26_Witness ==
    /\ authView.rendered = "children"
    /\ authView.allowedRoles = Allowed(TRUE, {"admin", "technician"})
    /\ auth.userRole = "technician"

\* C27: isAuthenticated is true only if a session check or a login succeeded
\* and no logout completed since; a failed login changes nothing; when a
\* logout request has settled, however it ended, isAuthenticated is false and
\* userRole is null.
C27_AuthenticatedOnlyIfGranted ==
    /\ [](auth.isAuthenticated => authObs.granted)
    /\ [][loginFail => auth' = auth]_vars
    /\ [][(\E outcome \in {"ok", "threw"} : logoutSettled(outcome))
            => (~auth'.isAuthenticated /\ auth'.userRole = Null)]_vars

C27_Witness ==
    /\ authObs.logout = "threw"
    /\ ~auth.isAuthenticated
    /\ auth.userRole = Null
    /\ authNet.logins > 0

\* C28: of a burst of changes at most one update request is sent, and once
\* none of its timeouts is left exactly one was sent, with the parameters of
\* the last change.
C28_OneRequestPerBurst ==
    /\ camObs.sent <= 1
    /\ (camObs.changes > 0 /\ camNet.timers = <<>>)
         => (camObs.sent = 1 /\ camObs.last = cam.parameters)

\* C29: in user management the displayed list is the fetched list with the
\* server-confirmed deletes, updates and creates applied: once the list is
\* fetched and no request is in flight, users equals that list, whatever
\* the order in which overlapping requests were answered.
C29_ListMatchesServer ==
    (~usersPage.isLoading /\ usersNet.requests = <<>>)
        => usersPage.users = usersObs.server

\* C30: a verify_dispense request is issued only after a recipe has been
\* accepted: the step that sends one starts with recipeSelected true.
C30_VerifyAfterRecipe ==
    [][dispenseNet'.verifies > dispenseNet.verifies => dispense.recipeSelected]_vars

=============================================================================
